---- MODULE Spec2Model ----
(***************************************************************************)
(* A model of the gallery page's script (src/script.js) and of the timing  *)
(* race that the suite's 'load data' tests set up                          *)
(* (src/tests/flaky-timing.test.js, src/tests/flaky-environment.test.js).  *)
(*                                                                         *)
(* The page is a set of event handlers over DOM state.  Each action below  *)
(* is one handler (or one timer callback) run to completion, as the        *)
(* browser's event loop runs it.  The page's markup is an input of the     *)
(* script: the attribute the filter buttons and the gallery items carry,   *)
(* and the class of the contact form, are chosen in Init among the         *)
(* repository's own markup (buttons data-filter, items data-category,      *)
(* form.contact-form) and the markup the script's selectors ask for.       *)
(***************************************************************************)
EXTENDS Integers, Sequences, FiniteSets, TLC

VARIABLES
    btnAttrName,    \* the attribute the .filter-btn elements carry
    itemAttrName,   \* the attribute the .gallery-item elements carry
    hamburger,      \* classList of .hamburger
    navMenu,        \* classList of .nav-menu
    oddClicks,      \* observer: hamburger clicks since the last nav-link click are odd
    filterButtons,  \* classList of each .filter-btn
    galleryItems,   \* [classList, display] of each .gallery-item
    clicked,        \* observer: index of the filter button clicked last, 0 before any
    timers,         \* pending setTimeout callbacks of the page, in registration order
    lightboxes,     \* every lightbox element created so far, in creation order
    bodyOverflow,   \* document.body.style.overflow
    errors,         \* names of the exceptions event listeners have thrown
    formClass,      \* the class the contact <form> carries
    formFields,     \* value of each field of the contact form
    submitBtn,      \* [textContent, disabled] of .submit-btn
    alerts,         \* number of alert() calls
    submits,        \* observer: number of submit events dispatched on the form
    defaultPrevented, \* observer: the last submit event had preventDefault() called
    variant,        \* the 'load data' test that runs: "timing", "environment", or "none"
    delay,          \* the load delay drawn, in units of 1/SubMs ms
    now,            \* the test's clock, in ms
    testTimers,     \* pending setTimeout callbacks of the test: [cb, at, seq]
    displayText,    \* #data-display textContent
    spinnerDisplay, \* .spinner style.display
    fired,          \* observer: the test's timer callbacks in the order they ran
    checkResult,    \* outcome of the fixed-time check: "pending", "pass", "fail"
    retry,          \* the 'retry failed requests' test: loop, attemptCount, outcome
    cache,          \* the 'cache expiration' test: the Map entry and the three results
    mem,            \* the state-pollution suite: globalCounter, sharedCache, position
    debounce,       \* the 'debounced events' test: timeout handle, eventCount
    ops,            \* the 'multiple async operations' test: results, awaits
    ws,             \* the 'WebSocket events' test: connectionState, messagesReceived
    upload,         \* the 'upload progress' test: uploaded, uploadProgress, checks
    statClass,      \* markup: the class of the statistics numbers
    stats           \* a statistics number: text, counter, interval, observed

navVars      == <<hamburger, navMenu, oddClicks>>
galleryVars  == <<btnAttrName, itemAttrName, filterButtons, galleryItems, clicked>>
lightboxVars == <<lightboxes, bodyOverflow, errors>>
formVars     == <<formClass, formFields, submitBtn, alerts, submits, defaultPrevented>>
raceVars     == <<variant, delay, now, testTimers, displayText, spinnerDisplay,
                  fired, checkResult>>
suiteVars    == <<retry, cache, mem, debounce, ops, ws, upload>>
statVars     == <<statClass, stats>>
vars         == <<navVars, galleryVars, timers, lightboxVars, formVars, raceVars,
                  suiteVars, statVars>>

----------------------------------------------------------------------------
(* Bounds *)

\* Pending page timers at any time; a click that would exceed it is not taken.
MaxTimers == 4

\* Lightboxes created in one behaviour.
MaxLightbox == 3

\* Submit events dispatched in one behaviour.
MaxSubmits == 3

\* Resolution of the drawn load delay: Math.random() is drawn on a grid of
\* 1/SubMs ms, so that delays that are not whole milliseconds occur.
SubMs == 2

\* Resolution of the draws of the tests that draw more than one delay:
\* Math.random() takes the values r / RandomGrid, r in 0 .. RandomGrid - 1.
RandomGrid == 4

\* Most milliseconds that pass between two tests of one suite.
MaxTick == 1

\* Resolution of the draws of the upload test, which draws up to forty times:
\* Math.random() takes the values r / UploadGrid, r in 0 .. UploadGrid - 1.
UploadGrid == 2

\* Date.now() when a test file starts, in milliseconds: any positive number.
Epoch == 1000

----------------------------------------------------------------------------
(* DOM helpers *)

Null == "null"

AttrNames == {"data-filter", "data-category"}

\* element.getAttribute(name): the value, or null when the attribute is absent.
GetAttribute(attrs, name) ==
    IF name \in DOMAIN attrs THEN attrs[name] ELSE Null

\* classList.toggle(c)
Toggle(classList, c) ==
    IF c \in classList THEN classList \ {c} ELSE classList \cup {c}

\* The filter buttons' values, in document order.
FilterValues == <<"all", "peaks", "climbing", "landscape">>

\* The gallery items' categories, in document order.
ItemCategory == <<"peaks", "climbing", "landscape">>

Buttons == DOMAIN FilterValues
Items   == DOMAIN ItemCategory

\* The attributes of button b and of item i under the page's markup.
ButtonAttrs(b) == (btnAttrName :> FilterValues[b])
ItemAttrs(i)   == (itemAttrName :> ItemCategory[i])

----------------------------------------------------------------------------
(* The page's timers.  A pending timer is [cb, arg, delay].  The moments of *)
(* the user's events are arbitrary, so of two pending timers the one        *)
(* registered first fires first when its delay is not the longer one;       *)
(* otherwise either may fire first.                                         *)

HideDelay == 300

CanFire(k) ==
    /\ k \in DOMAIN timers
    /\ \A j \in 1..(k - 1) : timers[j].delay > timers[k].delay

Remove(seq, k) == SubSeq(seq, 1, k - 1) \o SubSeq(seq, k + 1, Len(seq))

----------------------------------------------------------------------------
(* Navigation: script.js 9-21 *)

MenuClass == "opened"

HamburgerClick ==
    /\ hamburger' = Toggle(hamburger, MenuClass)
    /\ navMenu' = Toggle(navMenu, MenuClass)
    /\ oddClicks' = ~oddClicks
    /\ UNCHANGED <<galleryVars, timers, lightboxVars, formVars, raceVars, suiteVars, statVars>>

NavLinkClick ==
    /\ hamburger' = hamburger \ {MenuClass}
    /\ navMenu' = navMenu \ {MenuClass}
    /\ oddClicks' = FALSE
    /\ UNCHANGED <<galleryVars, timers, lightboxVars, formVars, raceVars, suiteVars, statVars>>

----------------------------------------------------------------------------
(* Gallery filtering: script.js 35-64 *)

\* The attribute the handler reads the clicked button's filter from.
FilterValueAttr == "data-category"

\* The attribute the handler reads an item's category from.
ItemCategoryAttr == "data-filter"

\* The handler's test for showing an item.
Matches(filterValue, itemCategory) ==
    filterValue = "all" \/ itemCategory = filterValue

Shown(b, i) ==
    Matches(GetAttribute(ButtonAttrs(b), FilterValueAttr),
            GetAttribute(ItemAttrs(i), ItemCategoryAttr))

\* The hide timers one click registers: one per item not shown, in item order.
HideTimers(b) ==
    LET idx == SelectSeq([i \in Items |-> i], LAMBDA i : ~Shown(b, i))
    IN  [k \in DOMAIN idx |-> [cb |-> "hide", arg |-> idx[k], delay |-> HideDelay]]

\* A handler that does not take 'active' off the other buttons.
ActiveNeverRemoved(classList, isClicked) ==
    IF isClicked THEN classList \cup {"active"} ELSE classList

\* The class list of a button after a click: 'active' is removed from every
\* button, then added to the clicked one.
ActiveAfterClick(classList, isClicked) ==
    IF isClicked THEN (classList \ {"active"}) \cup {"active"} ELSE classList \ {"active"}

FilterClick(b) ==
    /\ Len(timers) + Len(HideTimers(b)) <= MaxTimers
    /\ filterButtons' = [x \in Buttons |-> ActiveAfterClick(filterButtons[x], x = b)]
    /\ galleryItems' =
          [i \in Items |->
              IF Shown(b, i)
              THEN [classList |-> (galleryItems[i].classList \ {"hide"}) \cup {"show"},
                    display   |-> "block"]
              ELSE [classList |-> (galleryItems[i].classList \ {"show"}) \cup {"hide"},
                    display   |-> galleryItems[i].display]]
    /\ timers' = timers \o HideTimers(b)
    /\ clicked' = b
    /\ UNCHANGED <<btnAttrName, itemAttrName, navVars, lightboxVars, formVars, raceVars, suiteVars, statVars>>

\* The 300 ms callback of FilterClick: item.style.display = 'none'.
HideTimerFires(k) ==
    /\ CanFire(k)
    /\ timers[k].cb = "hide"
    /\ galleryItems' =
          [galleryItems EXCEPT ![timers[k].arg].display = "none"]
    /\ timers' = Remove(timers, k)
    /\ UNCHANGED <<btnAttrName, itemAttrName, filterButtons, clicked, navVars,
                   lightboxVars, formVars, raceVars, suiteVars, statVars>>

----------------------------------------------------------------------------
(* Lightbox: script.js 177-219 *)

\* The class the click handler gives the element it creates.
LightboxClass == "modal"

\* src and alt of each gallery item's <img>, in document order.
ImgSrc == <<"peak1.jpg", "climb1.jpg", "landscape1.jpg">>
ImgAlt == <<"Mountain Peak 1", "Climbing Photo 1", "Landscape Photo 1">>

\* The element the click handler builds for item i and appends to the body.
CreateLightbox(i) ==
    [classList |-> {LightboxClass},
     close     |-> "lightbox-close",
     src       |-> ImgSrc[i],
     alt       |-> ImgAlt[i],
     caption   |-> ImgAlt[i],
     attached  |-> TRUE]

\* The page as closeLightbox reads and writes it.
Page == [lightboxes |-> lightboxes, bodyOverflow |-> bodyOverflow, errors |-> errors]

\* closeLightbox() of lightbox l, run on page p: document.body.removeChild
\* throws NotFoundError when l is not a child of the body, and the statement
\* after it is then not reached.
closeLightbox(p, l) ==
    IF p.lightboxes[l].attached
    THEN [lightboxes   |-> [p.lightboxes EXCEPT ![l].attached = FALSE],
          bodyOverflow |-> "auto",
          errors       |-> p.errors]
    ELSE [p EXCEPT !.errors = p.errors \cup {"NotFoundError"}]

SetPage(p) ==
    /\ lightboxes' = p.lightboxes
    /\ bodyOverflow' = p.bodyOverflow
    /\ errors' = p.errors

\* Click on gallery item i.
ItemClick(i) ==
    /\ Len(lightboxes) < MaxLightbox
    /\ lightboxes' = Append(lightboxes, CreateLightbox(i))
    /\ bodyOverflow' = "hidden"
    /\ UNCHANGED <<errors, navVars, galleryVars, timers, formVars, raceVars, suiteVars, statVars>>

\* Click on the close control of lightbox l, which is on the page.
CloseBtnClick(l) ==
    /\ l \in DOMAIN lightboxes
    /\ lightboxes[l].attached
    /\ SetPage(closeLightbox(Page, l))
    /\ UNCHANGED <<navVars, galleryVars, timers, formVars, raceVars, suiteVars, statVars>>

\* Click on lightbox l itself (e.target === lightbox), which is on the page.
BackdropClick(l) ==
    /\ l \in DOMAIN lightboxes
    /\ lightboxes[l].attached
    /\ SetPage(closeLightbox(Page, l))
    /\ UNCHANGED <<navVars, galleryVars, timers, formVars, raceVars, suiteVars, statVars>>

\* The keydown listeners on document: one per lightbox ever created, never
\* removed.  An exception in one listener does not stop the next.
RECURSIVE RunKeydownListeners(_, _)
RunKeydownListeners(p, l) ==
    IF l > Len(p.lightboxes) THEN p
    ELSE RunKeydownListeners(closeLightbox(p, l), l + 1)

Keys == {"Escape", "Enter"}

KeyDown(key) ==
    /\ SetPage(IF key = "Escape" THEN RunKeydownListeners(Page, 1) ELSE Page)
    /\ UNCHANGED <<navVars, galleryVars, timers, formVars, raceVars, suiteVars, statVars>>

----------------------------------------------------------------------------
(* Contact form: script.js 81-109 *)

\* The selector the script looks the form up with.
FormSelector == "contact-form-wrapper"

FormClasses == {"contact-form", "contact-form-wrapper"}

FieldNames == {"name", "email", "message"}

SubmitDelay == 2000

\* document.querySelector('.' + FormSelector): the form, or null.
contactForm == IF formClass = FormSelector THEN "form" ELSE Null

\* The user types into field f.
TypeField(f) ==
    /\ formFields[f] = ""
    /\ formFields' = [formFields EXCEPT ![f] = "text"]
    /\ UNCHANGED <<formClass, submitBtn, alerts, submits, defaultPrevented,
                   navVars, galleryVars, timers, lightboxVars, raceVars, suiteVars, statVars>>

\* The state the submit handler puts the button in.
Sending == [textContent |-> "Sending...", disabled |-> TRUE]

\* A submit event on the form.  The listener exists only when the script
\* found the form; without it nothing handles the event.
Submit ==
    /\ submits < MaxSubmits
    /\ submits' = submits + 1
    /\ IF contactForm # Null
       THEN /\ Len(timers) < MaxTimers
            /\ defaultPrevented' = TRUE
            /\ submitBtn' = Sending
            /\ timers' = Append(timers, [cb    |-> "submitted",
                                         arg   |-> submitBtn.textContent,
                                         delay |-> SubmitDelay])
       ELSE /\ defaultPrevented' = FALSE
            /\ UNCHANGED <<submitBtn, timers>>
    /\ UNCHANGED <<formClass, formFields, alerts,
                   navVars, galleryVars, lightboxVars, raceVars, suiteVars, statVars>>

\* The 2000 ms callback of Submit.
SubmitTimerFires(k) ==
    /\ CanFire(k)
    /\ timers[k].cb = "submitted"
    /\ alerts' = alerts + 1
    /\ formFields' = [f \in FieldNames |-> ""]
    /\ submitBtn' = [textContent |-> timers[k].arg, disabled |-> FALSE]
    /\ timers' = Remove(timers, k)
    /\ UNCHANGED <<formClass, submits, defaultPrevented,
                   navVars, galleryVars, lightboxVars, raceVars, suiteVars, statVars>>

----------------------------------------------------------------------------
(* The 'load data' race: flaky-timing.test.js 22-52 and its stricter      *)
(* variant, flaky-environment.test.js 298-328.  The test registers the     *)
(* load timer, then the check timer, in one synchronous block.             *)

Variants == {"timing", "environment"}

\* Math.random() * DelaySpan + MinDelay, in ms.
MinDelay(v)  == IF v = "timing" THEN 50 ELSE 80
DelaySpan(v) == IF v = "timing" THEN 100 ELSE 120

\* The fixed time of the check, in ms.
CheckDelay(v) == IF v = "timing" THEN 75 ELSE 120

\* Math.random() lies in [0, 1): draw r stands for r / (DelaySpan * SubMs).
RandomDraws(v) == 0 .. (DelaySpan(v) * SubMs - 1)

\* The drawn delay, in units of 1/SubMs ms.
LoadDelay(v, r) == MinDelay(v) * SubMs + r

\* setTimeout converts its delay to a whole number of milliseconds,
\* dropping the fraction.
TimerMs(d) == d \div SubMs

\* The event loop runs the pending timer that is due first; timers due at
\* the same millisecond run in the order they were registered.
IsDue(t) ==
    /\ t \in testTimers
    /\ \A u \in testTimers :
          t.at < u.at \/ (t.at = u.at /\ t.seq <= u.seq)

StartTest(v, r) ==
    /\ variant = "none"
    /\ variant' = v
    /\ delay' = LoadDelay(v, r)
    /\ spinnerDisplay' = "block"
    /\ testTimers' = {[cb |-> "load",  at |-> now + TimerMs(LoadDelay(v, r)), seq |-> 1],
                      [cb |-> "check", at |-> now + CheckDelay(v),            seq |-> 2]}
    /\ UNCHANGED <<now, displayText, fired, checkResult,
                   navVars, galleryVars, timers, lightboxVars, formVars, suiteVars, statVars>>

\* A load callback that forgets to hide the spinner.
LoadCallbackKeepsSpinner == [displayText |-> "Data loaded!", spinnerDisplay |-> spinnerDisplay]

\* What the load timer's callback writes: [displayText, spinnerDisplay].
LoadCallback == [displayText |-> "Data loaded!", spinnerDisplay |-> "none"]

LoadTimerFires(t) ==
    /\ IsDue(t)
    /\ t.cb = "load"
    /\ now' = t.at
    /\ displayText' = LoadCallback.displayText
    /\ spinnerDisplay' = LoadCallback.spinnerDisplay
    /\ fired' = Append(fired, "load")
    /\ testTimers' = testTimers \ {t}
    /\ UNCHANGED <<variant, delay, checkResult,
                   navVars, galleryVars, timers, lightboxVars, formVars, suiteVars, statVars>>

\* The two expect() calls of the check timer's callback.
Expectations == displayText = "Data loaded!" /\ spinnerDisplay = "none"

CheckTimerFires(t) ==
    /\ IsDue(t)
    /\ t.cb = "check"
    /\ now' = t.at
    /\ checkResult' = IF Expectations THEN "pass" ELSE "fail"
    /\ fired' = Append(fired, "check")
    /\ testTimers' = testTimers \ {t}
    /\ UNCHANGED <<variant, delay, displayText, spinnerDisplay,
                   navVars, galleryVars, timers, lightboxVars, formVars, suiteVars, statVars>>

----------------------------------------------------------------------------
(* The timer-driven tests of the suite.  Each runs alone on the clock `now` *)
(* and the timer queue `testTimers` of the 'load data' race above.          *)

pageVars == <<navVars, galleryVars, timers, lightboxVars, formVars>>
loadVars == <<variant, delay, displayText, spinnerDisplay, fired, checkResult>>

Grid == 0 .. (RandomGrid - 1)

\* Math.random() * span + min as setTimeout takes it: whole milliseconds.
GridDelayMs(min, span, r) == (min * RandomGrid + r * span) \div RandomGrid

\* Math.random() < tenths / 10
Below(r, tenths) == r * 10 < tenths * RandomGrid

----------------------------------------------------------------------------
(* Retry: flaky-network.test.js 103-149 *)

maxRetries == 3

\* The loop's test for giving up, off by one.
LastTryOffByOne(i) == i = maxRetries

\* catch: if (i === maxRetries - 1) throw error
LastTry(i) == i = maxRetries - 1

\* mockUnreliableApi(): counts the attempt and draws shouldFail.
CallApi(rFail) ==
    [retry EXCEPT !.pc = "awaitApi",
                  !.attemptCount = @ + 1,
                  !.shouldFail = Below(rFail, 3),
                  !.pattern = Append(@, Below(rFail, 3))]

ApiTimer(rDelay) ==
    [cb |-> "api", at |-> now + GridDelayMs(25, 50, rDelay), seq |-> 1]

\* await mockRetryRequest(), first pass of the loop.
RetryStart(rFail, rDelay) ==
    /\ retry.pc = "start"
    /\ retry' = CallApi(rFail)
    /\ testTimers' = {ApiTimer(rDelay)}
    /\ UNCHANGED <<now, pageVars, loadVars, cache, mem, debounce, ops, ws, upload, statVars>>

\* The API's timer, then the loop's try / catch.
ApiTimerFires(t) ==
    /\ IsDue(t)
    /\ t.cb = "api"
    /\ now' = t.at
    /\ IF retry.shouldFail /\ retry.attemptCount <= maxRetries
       THEN IF LastTry(retry.i)
            THEN /\ retry' = [retry EXCEPT
                        !.pc = "done",
                        !.outcome = "rejected",
                        !.value = [message |-> <<"Attempt", retry.attemptCount, "failed">>]]
                 /\ testTimers' = testTimers \ {t}
            ELSE /\ retry' = [retry EXCEPT !.pc = "backoff"]
                 /\ testTimers' = (testTimers \ {t}) \cup
                        {[cb |-> "backoff", at |-> t.at + 25, seq |-> 1]}
       ELSE /\ retry' = [retry EXCEPT
                   !.pc = "done",
                   !.outcome = "resolved",
                   !.value = [success |-> TRUE, attempts |-> retry.attemptCount]]
            /\ testTimers' = testTimers \ {t}
    /\ UNCHANGED <<pageVars, loadVars, cache, mem, debounce, ops, ws, upload, statVars>>

\* The 25 ms retry delay, then the next pass of the loop (or its end).
BackoffTimerFires(t, rFail, rDelay) ==
    /\ IsDue(t)
    /\ t.cb = "backoff"
    /\ now' = t.at
    /\ IF retry.i + 1 < maxRetries
       THEN /\ retry' = [CallApi(rFail) EXCEPT !.i = retry.i + 1]
            /\ testTimers' = {[ApiTimer(rDelay) EXCEPT !.at = t.at + GridDelayMs(25, 50, rDelay)]}
       ELSE /\ retry' = [retry EXCEPT !.pc = "done", !.i = retry.i + 1,
                                      !.outcome = "resolved", !.value = Null]
            /\ testTimers' = {}
    /\ UNCHANGED <<pageVars, loadVars, cache, mem, debounce, ops, ws, upload, statVars>>

----------------------------------------------------------------------------
(* Cache expiration: flaky-network.test.js 152-186 *)

cacheExpiry == 200

ExpiryWait == 250

\* The cache that never expires an entry.
HitIgnoresAge(entry, t) == entry.cached

\* cached && (now - cached.timestamp) < cacheExpiry
Hit(entry, t) == entry.cached /\ (t - entry.timestamp) < cacheExpiry

\* Math.random() * 100 + 50
ApiDraws == 0 .. (100 * SubMs - 1)
ApiDelay(r) == TimerMs(50 * SubMs + r)

\* One call of mockCachedApiCall at time t, as call number k of the test:
\* a hit returns at once, a miss starts the API timer.
Returned(c, k, t, fromCache) ==
    [c EXCEPT !.results = Append(@, [fromCache |-> fromCache,
                                      start |-> IF fromCache THEN t ELSE c.callStart,
                                      at |-> t])]

\* The first call: const result1 = await mockCachedApiCall('test-key')
CacheStart(r) ==
    /\ cache.pc = "start"
    /\ IF Hit(cache.entry, now)
       THEN /\ cache' = [Returned(cache, 1, now, TRUE) EXCEPT !.pc = "failed"]
            /\ UNCHANGED testTimers
       ELSE /\ cache' = [cache EXCEPT !.pc = "api", !.call = 1, !.callStart = now]
            /\ testTimers' = {[cb |-> "cacheApi", at |-> now + ApiDelay(r), seq |-> 1]}
    /\ UNCHANGED <<now, pageVars, loadVars, retry, mem, debounce, ops, ws, upload, statVars>>

\* The API timer of call k: cache.set with the timestamp taken when the call
\* began, the result, its expectation, and what the test does next.
CacheApiTimerFires(t, r) ==
    /\ IsDue(t)
    /\ t.cb = "cacheApi"
    /\ now' = t.at
    /\ LET k == cache.call
           set == [Returned(cache, k, t.at, FALSE) EXCEPT
                      !.entry = [cached |-> TRUE, timestamp |-> cache.callStart]]
       IN  CASE k = 1 ->
                  IF Hit(set.entry, t.at)
                  THEN /\ cache' = [Returned(set, 2, t.at, TRUE) EXCEPT !.pc = "wait"]
                       /\ testTimers' = {[cb |-> "cacheWait", at |-> t.at + ExpiryWait,
                                          seq |-> 1]}
                  ELSE /\ cache' = [set EXCEPT !.call = 2, !.callStart = t.at]
                       /\ testTimers' = {[cb |-> "cacheApi", at |-> t.at + ApiDelay(r),
                                          seq |-> 1]}
             [] k = 2 ->
                  /\ cache' = [set EXCEPT !.pc = "failed"]
                  /\ testTimers' = {}
             [] OTHER ->
                  /\ cache' = [set EXCEPT !.pc = "passed"]
                  /\ testTimers' = {}
    /\ UNCHANGED <<pageVars, loadVars, retry, mem, debounce, ops, ws, upload, statVars>>

\* The 250 ms wait is over: const result3 = await mockCachedApiCall('test-key')
CacheWaitTimerFires(t, r) ==
    /\ IsDue(t)
    /\ t.cb = "cacheWait"
    /\ now' = t.at
    /\ IF Hit(cache.entry, t.at)
       THEN /\ cache' = [Returned(cache, 3, t.at, TRUE) EXCEPT !.pc = "failed"]
            /\ testTimers' = {}
       ELSE /\ cache' = [cache EXCEPT !.pc = "api", !.call = 3, !.callStart = t.at]
            /\ testTimers' = {[cb |-> "cacheApi", at |-> t.at + ApiDelay(r), seq |-> 1]}
    /\ UNCHANGED <<pageVars, loadVars, retry, mem, debounce, ops, ws, upload, statVars>>

----------------------------------------------------------------------------
(* State pollution: flaky-memory.test.js 5-65.  The tests of the describe   *)
(* block run in the order of the file, beforeEach before each.              *)

NumTests == 10

\* Math.floor(Math.random() * 5) + 1
PollutionDraws == 1..5

PollutionKey(t) == <<"pollution", t>>
UserKey == <<"user", 0>>

\* beforeEach before test k: the DOM is rebuilt, the shared state is not
\* reset, the counter grows by 1..5 and the cache gets a key.
BeforeEach(r, dt) ==
    /\ mem.pc = "between"
    /\ mem.test < NumTests
    /\ now' = now + dt
    /\ mem' = [mem EXCEPT !.pc = "body",
                          !.test = @ + 1,
                          !.counterDisplay = "0",
                          !.globalCounter = @ + r,
                          !.sharedCache = @ \cup {PollutionKey(now + dt)}]
    /\ UNCHANGED <<testTimers, pageVars, loadVars, retry, cache, debounce, ops, ws, upload, statVars>>

\* 'should start with counter at zero': the first expect throws unless the
\* counter is 0; otherwise mockIncrement and expect 1.
CounterTest ==
    /\ mem.pc = "body"
    /\ mem.test = 1
    /\ IF mem.globalCounter # 0 \/ mem.counterDisplay # "0"
       THEN mem' = [mem EXCEPT !.pc = "between", !.failed = @ \cup {1}]
       ELSE mem' = [mem EXCEPT !.pc = "between",
                               !.globalCounter = @ + 1,
                               !.counterDisplay = "1",
                               !.failed = IF mem.globalCounter + 1 = 1
                                          THEN @ ELSE @ \cup {1}]
    /\ UNCHANGED <<now, testTimers, pageVars, loadVars, retry, cache, debounce, ops, ws, upload, statVars>>

\* 'should have empty cache initially': the first expect throws unless the
\* cache has no keys; otherwise mockSetCache('user', ...).
CacheTest ==
    /\ mem.pc = "body"
    /\ mem.test = 2
    /\ IF mem.sharedCache # {}
       THEN mem' = [mem EXCEPT !.pc = "between", !.failed = @ \cup {2}]
       ELSE mem' = [mem EXCEPT !.pc = "between", !.sharedCache = {UserKey}]
    /\ UNCHANGED <<now, testTimers, pageVars, loadVars, retry, cache, debounce, ops, ws, upload, statVars>>

\* The other tests of the suite use neither the counter nor the cache.
OtherTest ==
    /\ mem.pc = "body"
    /\ mem.test > 2
    /\ mem' = [mem EXCEPT !.pc = "between"]
    /\ UNCHANGED <<now, testTimers, pageVars, loadVars, retry, cache, debounce, ops, ws, upload, statVars>>

----------------------------------------------------------------------------
(* Multiple async operations and debounced events:                          *)
(* flaky-timing.test.js 84-151, flaky-environment.test.js 360-431.          *)
(* The two tests run one after the other, in the order of the file; a timer *)
(* the first leaves behind fires during the second.                         *)

DateNow(t) == Epoch + t

\* A sequence number later than that of every pending timer.
RECURSIVE MaxSeq(_)
MaxSeq(S) ==
    IF S = {} THEN 0
    ELSE LET t == CHOOSE u \in S : TRUE
             m == MaxSeq(S \ {t})
         IN  IF t.seq > m THEN t.seq ELSE m

\* Math.random() * span + min of asyncOp1, asyncOp2, asyncOp3.
OpMin(v, op) ==
    IF v = "timing" THEN (CASE op = "op1" -> 10 [] op = "op2" -> 20 [] OTHER -> 5)
    ELSE (CASE op = "op1" -> 50 [] op = "op2" -> 80 [] OTHER -> 100)
OpSpan(v, op) ==
    IF v = "timing" THEN (CASE op = "op1" -> 50 [] op = "op2" -> 80 [] OTHER -> 30)
    ELSE (CASE op = "op1" -> 100 [] op = "op2" -> 150 [] OTHER -> 200)
OpDelay(v, op, r) == GridDelayMs(OpMin(v, op), OpSpan(v, op), r)

OpNames == {"op1", "op2", "op3"}

\* await new Promise(resolve => setTimeout(resolve, 50)), stricter variant only
ExtraWait == 50

Contains(seq, x) == \E j \in 1..Len(seq) : seq[j] = x

\* The four expectations on results.
OpsExpectations(results) ==
    /\ Contains(results, "op1")
    /\ Contains(results, "op2")
    /\ Contains(results, "op3")
    /\ Len(results) = 3

\* const promises = [asyncOp1(), asyncOp2(), asyncOp3()]
OpsStart(v, r1, r2, r3) ==
    /\ ops.pc = "start"
    /\ ops' = [ops EXCEPT !.pc = "awaitAll", !.variant = v]
    /\ testTimers' = {[cb |-> "op1", at |-> now + OpDelay(v, "op1", r1), seq |-> 1],
                      [cb |-> "op2", at |-> now + OpDelay(v, "op2", r2), seq |-> 2],
                      [cb |-> "op3", at |-> now + OpDelay(v, "op3", r3), seq |-> 3]}
    /\ UNCHANGED <<now, pageVars, loadVars, retry, cache, mem, debounce, ws, upload, statVars>>

\* An operation's timer: push, resolve; when op1 and op2 have both resolved
\* the test goes on, to its expectations or to the extra wait.
OpTimerFires(t) ==
    /\ IsDue(t)
    /\ t.cb \in OpNames
    /\ now' = t.at
    /\ LET results == Append(ops.results, t.cb)
           both == Contains(results, "op1") /\ Contains(results, "op2")
       IN  IF ops.pc = "awaitAll" /\ both
           THEN IF ops.variant = "timing"
                THEN /\ ops' = [ops EXCEPT !.results = results, !.pc = "done",
                                           !.seen = results,
                                           !.passed = OpsExpectations(results)]
                     /\ testTimers' = testTimers \ {t}
                ELSE /\ ops' = [ops EXCEPT !.results = results, !.pc = "wait"]
                     /\ testTimers' = (testTimers \ {t}) \cup
                            {[cb |-> "opsWait", at |-> t.at + ExtraWait,
                              seq |-> MaxSeq(testTimers) + 1]}
           ELSE /\ ops' = [ops EXCEPT !.results = results]
                /\ testTimers' = testTimers \ {t}
    /\ UNCHANGED <<pageVars, loadVars, retry, cache, mem, debounce, ws, upload, statVars>>

\* The extra wait is over: the expectations.
OpsWaitTimerFires(t) ==
    /\ IsDue(t)
    /\ t.cb = "opsWait"
    /\ now' = t.at
    /\ ops' = [ops EXCEPT !.pc = "done", !.seen = ops.results,
                          !.passed = OpsExpectations(ops.results)]
    /\ testTimers' = testTimers \ {t}
    /\ UNCHANGED <<pageVars, loadVars, retry, cache, mem, debounce, ws, upload, statVars>>

\* The debounce delay, the times of the later triggers and of the check.
DebounceMs(v) == IF v = "timing" THEN 100 ELSE 180
TriggerTimes(v) == IF v = "timing" THEN <<50, 80, 120>> ELSE <<50, 100, 150, 200>>
DebounceCheckMs(v) == IF v = "timing" THEN 150 ELSE 200

\* mockDebouncedHandler(): clearTimeout(timeout); timeout = setTimeout(..., D)
Debounced(S, t, v) ==
    {u \in S : u.cb # "handler"} \cup
    {[cb |-> "handler", at |-> t + DebounceMs(v), seq |-> MaxSeq(S) + 1]}

\* The body of the debounce test, dt ms after the previous test ended: the
\* first trigger, the timers of the later triggers, the timer of the check.
DebounceStart(dt) ==
    /\ ops.pc = "done"
    /\ debounce.pc = "start"
    /\ \A u \in testTimers : u.at >= now + dt
    /\ now' = now + dt
    /\ debounce' = [debounce EXCEPT !.pc = "running"]
    /\ LET v == ops.variant
           first == Debounced(testTimers, now + dt, v)
           base == MaxSeq(first)
           n == Len(TriggerTimes(v))
       IN  testTimers' = first
               \cup {[cb |-> "trigger", at |-> now + dt + TriggerTimes(v)[j],
                      seq |-> base + j] : j \in 1..n}
               \cup {[cb |-> "debounceCheck", at |-> now + dt + DebounceCheckMs(v),
                      seq |-> base + n + 1]}
    /\ UNCHANGED <<pageVars, loadVars, retry, cache, mem, ops, ws, upload, statVars>>

\* setTimeout(() => mockDebouncedHandler(), ...)
TriggerTimerFires(t) ==
    /\ IsDue(t)
    /\ t.cb = "trigger"
    /\ now' = t.at
    /\ testTimers' = Debounced(testTimers \ {t}, t.at, ops.variant)
    /\ UNCHANGED <<pageVars, loadVars, retry, cache, mem, debounce, ops, ws, upload, statVars>>

\* The debounced callback: eventCount++; lastEventTime = Date.now()
HandlerTimerFires(t) ==
    /\ IsDue(t)
    /\ t.cb = "handler"
    /\ now' = t.at
    /\ debounce' = [debounce EXCEPT !.eventCount = @ + 1,
                                    !.lastEventTime = DateNow(t.at)]
    /\ testTimers' = testTimers \ {t}
    /\ UNCHANGED <<pageVars, loadVars, retry, cache, mem, ops, ws, upload, statVars>>

\* The check: the two expectations, then done().
DebounceCheckTimerFires(t) ==
    /\ IsDue(t)
    /\ t.cb = "debounceCheck"
    /\ now' = t.at
    /\ debounce' = [debounce EXCEPT
            !.pc = "done",
            !.seen = [eventCount |-> debounce.eventCount,
                      lastEventTime |-> debounce.lastEventTime],
            !.passed = debounce.eventCount = 1 /\ debounce.lastEventTime > 0]
    /\ testTimers' = testTimers \ {t}
    /\ UNCHANGED <<pageVars, loadVars, retry, cache, mem, ops, ws, upload, statVars>>

----------------------------------------------------------------------------
(* Mock WebSocket: flaky-network.test.js 189-239 *)

Hello == "Hello WebSocket"

\* An echo that is delivered but not recorded.
EchoDropped(received, message) == received

\* messagesReceived.push(`Echo: ${message}`)
EchoPush(received, message) == Append(received, <<"Echo", message>>)

\* Math.random() * 100 + 50 and Math.random() * 50 + 10
ConnectDraws == 0 .. (100 * SubMs - 1)
ConnectDelay(r) == TimerMs(50 * SubMs + r)
EchoDraws == 0 .. (50 * SubMs - 1)
EchoDelay(r) == TimerMs(10 * SubMs + r)

EarlyCheckMs == 75
MessageCheckMs == 10

\* mockWebSocket.send(message) at time t: the echo timer, if connected.
Send(S, state, t, r) ==
    IF state = "connected"
    THEN S \cup {[cb |-> "echo", at |-> t + EchoDelay(r), seq |-> MaxSeq(S) + 1]}
    ELSE S

\* mockWebSocket.connect() and the early check's timer.
WsStart(r) ==
    /\ ws.pc = "start"
    /\ ws' = [ws EXCEPT !.pc = "connecting"]
    /\ testTimers' = {[cb |-> "connect", at |-> now + ConnectDelay(r), seq |-> 1],
                      [cb |-> "earlyCheck", at |-> now + EarlyCheckMs, seq |-> 2]}
    /\ UNCHANGED <<now, pageVars, loadVars, retry, cache, mem, debounce, ops, upload, statVars>>

\* The connection timer: the state, then onopen, which sends.
ConnectTimerFires(t, r) ==
    /\ IsDue(t)
    /\ t.cb = "connect"
    /\ now' = t.at
    /\ ws' = [ws EXCEPT !.pc = "open", !.connectionState = "connected"]
    /\ testTimers' = Send(testTimers \ {t}, "connected", t.at, r)
    /\ UNCHANGED <<pageVars, loadVars, retry, cache, mem, debounce, ops, upload, statVars>>

\* The echo timer: the push, then onmessage, which schedules the check.
EchoTimerFires(t) ==
    /\ IsDue(t)
    /\ t.cb = "echo"
    /\ now' = t.at
    /\ ws' = [ws EXCEPT !.messagesReceived = EchoPush(@, Hello)]
    /\ testTimers' = (testTimers \ {t}) \cup
           {[cb |-> "messageCheck", at |-> t.at + MessageCheckMs,
             seq |-> MaxSeq(testTimers) + 1]}
    /\ UNCHANGED <<pageVars, loadVars, retry, cache, mem, debounce, ops, upload, statVars>>

\* The check at 75 ms: expect(connectionState).toBe('connected')
EarlyCheckTimerFires(t) ==
    /\ IsDue(t)
    /\ t.cb = "earlyCheck"
    /\ now' = t.at
    /\ ws' = [ws EXCEPT !.early = IF ws.connectionState = "connected"
                                  THEN "passed" ELSE "failed"]
    /\ testTimers' = testTimers \ {t}
    /\ UNCHANGED <<pageVars, loadVars, retry, cache, mem, debounce, ops, upload, statVars>>

\* The check scheduled by onmessage: three expectations, then done().
MessageCheckTimerFires(t) ==
    /\ IsDue(t)
    /\ t.cb = "messageCheck"
    /\ now' = t.at
    /\ ws' = [ws EXCEPT
            !.pc = "done",
            !.seen = [connectionState |-> ws.connectionState,
                      messagesReceived |-> ws.messagesReceived],
            !.passed = /\ ws.connectionState = "connected"
                       /\ Contains(ws.messagesReceived, <<"Echo", Hello>>)
                       /\ Len(ws.messagesReceived) = 1]
    /\ testTimers' = testTimers \ {t}
    /\ UNCHANGED <<pageVars, loadVars, retry, cache, mem, debounce, ops, upload, statVars>>

----------------------------------------------------------------------------
(* Upload progress: flaky-network.test.js 242-284.  Sizes are counted in    *)
(* units of 1 / UploadGrid so that every chunk size is a whole number.      *)

totalSize == 1000

\* Math.random() * 100 + 50, in units of 1 / UploadGrid
ChunkSize(r) == 50 * UploadGrid + r * 100

\* Math.random() * 50 + 10 as setTimeout takes it: whole milliseconds.
UploadDelayMs(r) == (10 * UploadGrid + r * 50) \div UploadGrid

UploadDraws == 0 .. (UploadGrid - 1)

\* An upload that does not cap uploaded at totalSize.
Uncapped(a, b) == a

\* Math.min
Min(a, b) == IF a < b THEN a ELSE b

\* Math.floor((uploaded / totalSize) * 100)
Progress(uploaded) == (uploaded * 100) \div (totalSize * UploadGrid)

\* The times of the three checks.
ProgressCheckTimes == <<100, 200, 300>>

\* uploadChunk() at time t with pending timers S: the new upload state and
\* the timers, with the next chunk's timer unless the upload is complete.
ChunkState(u, rSize) ==
    LET uploaded == Min(u.uploaded + ChunkSize(rSize), totalSize * UploadGrid)
    IN  [u EXCEPT !.uploaded = uploaded,
                  !.previous = u.uploadProgress,
                  !.uploadProgress = Progress(uploaded),
                  !.uploadComplete = u.uploadComplete \/ uploaded >= totalSize * UploadGrid,
                  !.chunks = @ + 1]

ChunkTimers(S, uploaded, t, rDelay) ==
    IF uploaded >= totalSize * UploadGrid
    THEN S
    ELSE S \cup {[cb |-> "chunk", at |-> t + UploadDelayMs(rDelay),
                  seq |-> MaxSeq(S) + 1]}

\* mockFileUpload(...): the first chunk at once, then the three check timers.
UploadStart(rSize, rDelay) ==
    /\ upload.pc = "start"
    /\ LET u == ChunkState(upload, rSize)
           first == ChunkTimers({}, u.uploaded, now, rDelay)
           base == MaxSeq(first)
       IN  /\ upload' = [u EXCEPT !.pc = "running"]
           /\ testTimers' = first \cup
                  {[cb |-> "progressCheck", at |-> now + ProgressCheckTimes[j],
                    seq |-> base + j] : j \in 1..Len(ProgressCheckTimes)}
    /\ UNCHANGED <<now, pageVars, loadVars, retry, cache, mem, debounce, ops, ws, statVars>>

\* setTimeout(uploadChunk, ...)
ChunkTimerFires(t, rSize, rDelay) ==
    /\ IsDue(t)
    /\ t.cb = "chunk"
    /\ now' = t.at
    /\ LET u == ChunkState(upload, rSize)
       IN  /\ upload' = u
           /\ testTimers' = ChunkTimers(testTimers \ {t}, u.uploaded, t.at, rDelay)
    /\ UNCHANGED <<pageVars, loadVars, retry, cache, mem, debounce, ops, ws, statVars>>

\* One of the checks at 100, 200 and 300 ms: what it sees; the last calls done().
ProgressCheckTimerFires(t) ==
    /\ IsDue(t)
    /\ t.cb = "progressCheck"
    /\ now' = t.at
    /\ upload' = [upload EXCEPT
            !.seen = Append(@, [uploadProgress |-> upload.uploadProgress,
                                uploadComplete |-> upload.uploadComplete]),
            !.pc = IF Len(upload.seen) + 1 = Len(ProgressCheckTimes) THEN "done" ELSE @]
    /\ testTimers' = testTimers \ {t}
    /\ UNCHANGED <<pageVars, loadVars, retry, cache, mem, debounce, ops, ws, statVars>>

----------------------------------------------------------------------------
(* Statistics counters: script.js 145-175.  One statistics number; each has *)
(* its own observer entry and its own countUp closure.                      *)

\* The selector the script looks the statistics numbers up with.
StatsSelector == "statistics-number"

StatClasses == {"stat-number", "statistics-number"}

\* Texts of a statistics number, character by character: the three of the
\* page, the '100+' of the tests, a zero, and a text without digits.
StatTexts ==
    { <<"1", "5", "0">>, <<"5", "0">>, <<"1", "0", "0", "0">>,
      <<"1", "0", "0", "+">>, <<"0">>, <<"N", "/", "A">> }

DigitChars == <<"0", "1", "2", "3", "4", "5", "6", "7", "8", "9">>

IsDigit(c) == \E d \in DOMAIN DigitChars : DigitChars[d] = c
DigitValue(c) == (CHOOSE d \in DOMAIN DigitChars : DigitChars[d] = c) - 1

\* text.replace(/\D/g, '')
StripNonDigits(text) == SelectSeq(text, IsDigit)

NaN == [nan |-> TRUE, value |-> 0]
Number(n) == [nan |-> FALSE, value |-> n]

\* parseInt of a string of digits: NaN for the empty string.
RECURSIVE DecimalValue(_)
DecimalValue(digits) ==
    IF digits = <<>> THEN 0
    ELSE 10 * DecimalValue(SubSeq(digits, 1, Len(digits) - 1))
         + DigitValue(digits[Len(digits)])

ParseInt(digits) == IF digits = <<>> THEN NaN ELSE Number(DecimalValue(digits))

\* The number of increments target / 100 the interval adds per tick.
Steps == 100

\* current >= target, with current = steps * (target / 100); false for NaN.
ReachedTarget(steps, target) ==
    ~target.nan /\ steps * target.value >= Steps * target.value

\* Math.floor(current)
FloorCurrent(steps, target) ==
    IF target.nan THEN NaN ELSE Number((steps * target.value) \div Steps)

\* The observer reports the element: when it intersects, countUp starts on
\* the number parsed from its text and the element is unobserved.
Intersect(isIntersecting) ==
    /\ stats.observed
    /\ IF isIntersecting
       THEN stats' = [stats EXCEPT
                !.observed = FALSE,
                !.target = ParseInt(StripNonDigits(stats.text)),
                !.steps = 0,
                !.timer = TRUE,
                !.started = @ + 1]
       ELSE UNCHANGED stats
    /\ UNCHANGED <<statClass, pageVars, raceVars, suiteVars>>

\* One tick of countUp's interval.
Tick ==
    /\ stats.timer
    /\ LET steps == IF stats.target.nan THEN stats.steps ELSE stats.steps + 1
       IN  IF ReachedTarget(steps, stats.target)
           THEN stats' = [stats EXCEPT !.steps = steps,
                                       !.previous = stats.shown,
                                       !.shown = stats.target,
                                       !.written = TRUE,
                                       !.timer = FALSE]
           ELSE stats' = [stats EXCEPT !.steps = steps,
                                       !.previous = IF stats.target.nan THEN @ ELSE stats.shown,
                                       !.shown = FloorCurrent(steps, stats.target),
                                       !.written = TRUE]
    /\ UNCHANGED <<statClass, pageVars, raceVars, suiteVars>>

----------------------------------------------------------------------------
(* Initial states *)

NavInit ==
    /\ hamburger = {"hamburger"}
    /\ navMenu = {"nav-menu"}
    /\ oddClicks = FALSE

GalleryInit ==
    /\ filterButtons =
          [b \in Buttons |->
              IF b = 1 THEN {"filter-btn", "active"} ELSE {"filter-btn"}]
    /\ galleryItems =
          [i \in Items |-> [classList |-> {"gallery-item"}, display |-> ""]]
    /\ clicked = 0
    /\ timers = <<>>

LightboxInit ==
    /\ lightboxes = <<>>
    /\ bodyOverflow = ""
    /\ errors = {}

FormInit ==
    /\ formFields = [f \in FieldNames |-> ""]
    /\ submitBtn = [textContent |-> "Send Message", disabled |-> FALSE]
    /\ alerts = 0
    /\ submits = 0
    /\ defaultPrevented = FALSE

RaceInit ==
    /\ variant = "none"
    /\ delay = 0
    /\ now = 0
    /\ testTimers = {}
    /\ displayText = ""
    /\ spinnerDisplay = "none"
    /\ fired = <<>>
    /\ checkResult = "pending"

RetryInit ==
    retry = [pc |-> "start", i |-> 0, attemptCount |-> 0, shouldFail |-> FALSE,
             pattern |-> <<>>, outcome |-> "pending", value |-> Null]

CacheInit ==
    cache = [pc |-> "start", entry |-> [cached |-> FALSE, timestamp |-> 0], call |-> 0, callStart |-> 0, results |-> <<>>]

MemInit ==
    mem = [pc |-> "between", test |-> 0, globalCounter |-> 0, sharedCache |-> {},
           counterDisplay |-> "0", failed |-> {}]

OpsInit ==
    ops = [pc |-> "start", variant |-> "none", results |-> <<>>, seen |-> <<>>,
           passed |-> FALSE]

DebounceInit ==
    debounce = [pc |-> "start", eventCount |-> 0, lastEventTime |-> 0,
                seen |-> [eventCount |-> 0, lastEventTime |-> 0], passed |-> FALSE]

WsInit ==
    ws = [pc |-> "start", connectionState |-> "disconnected", messagesReceived |-> <<>>,
          early |-> "pending",
          seen |-> [connectionState |-> "disconnected", messagesReceived |-> <<>>],
          passed |-> FALSE]

UploadInit ==
    upload = [pc |-> "start", uploaded |-> 0, uploadProgress |-> 0, previous |-> 0,
              uploadComplete |-> FALSE, chunks |-> 0, seen |-> <<>>]

\* statsObserver.observe(stat) for the elements the selector found.
StatsInit ==
    /\ statClass \in StatClasses
    /\ \E text \in StatTexts :
          stats = [text |-> text, observed |-> (statClass = StatsSelector),
                   target |-> Number(0), steps |-> 0, timer |-> FALSE, started |-> 0,
                   shown |-> Number(0), previous |-> Number(0), written |-> FALSE]

RepoStatsMarkup == statClass = "stat-number" /\ stats.text = <<"1", "5", "0">>

SuiteInit ==
    /\ RetryInit
    /\ CacheInit
    /\ MemInit
    /\ DebounceInit
    /\ OpsInit
    /\ WsInit
    /\ UploadInit

\* The markup of the repository's pages (part_002 14-31, part_003 49-64, 91).
RepoGalleryMarkup == btnAttrName = "data-filter" /\ itemAttrName = "data-category"
RepoFormMarkup    == formClass = "contact-form"

Loaded ==
    NavInit /\ GalleryInit /\ LightboxInit /\ FormInit /\ RaceInit /\ SuiteInit /\ StatsInit

----------------------------------------------------------------------------
(* Specifications *)

\* Navigation and gallery filtering, over the gallery markups.
Init ==
    /\ btnAttrName \in AttrNames
    /\ itemAttrName \in AttrNames
    /\ RepoFormMarkup
    /\ Loaded
    /\ RepoStatsMarkup

Next ==
    \/ HamburgerClick
    \/ NavLinkClick
    \/ \E b \in Buttons : FilterClick(b)
    \/ \E k \in DOMAIN timers : HideTimerFires(k)

Spec == Init /\ [][Next]_vars

\* The lightbox, on the repository's markup.
InitLightbox == RepoGalleryMarkup /\ RepoFormMarkup /\ Loaded /\ RepoStatsMarkup

NextLightbox ==
    \/ \E i \in Items : ItemClick(i)
    \/ \E l \in DOMAIN lightboxes : CloseBtnClick(l)
    \/ \E l \in DOMAIN lightboxes : BackdropClick(l)
    \/ \E key \in Keys : KeyDown(key)

SpecLightbox == InitLightbox /\ [][NextLightbox]_vars

\* The contact form, over the form markups.
InitForm == RepoGalleryMarkup /\ formClass \in FormClasses /\ Loaded /\ RepoStatsMarkup

NextForm ==
    \/ \E f \in FieldNames : TypeField(f)
    \/ Submit
    \/ \E k \in DOMAIN timers : SubmitTimerFires(k)

SpecForm == InitForm /\ [][NextForm]_vars

\* The 'load data' race.
InitRace == RepoGalleryMarkup /\ RepoFormMarkup /\ Loaded /\ RepoStatsMarkup

NextRace ==
    \/ \E v \in Variants : \E r \in RandomDraws(v) : StartTest(v, r)
    \/ \E t \in testTimers : LoadTimerFires(t)
    \/ \E t \in testTimers : CheckTimerFires(t)

SpecRace == InitRace /\ [][NextRace]_vars

\* The tests of the suite start on the repository's page.
InitSuite == RepoGalleryMarkup /\ RepoFormMarkup /\ Loaded /\ RepoStatsMarkup

\* The retry test.  The event loop runs every timer that is due.
NextRetry ==
    \/ \E rFail \in Grid : \E rDelay \in Grid : RetryStart(rFail, rDelay)
    \/ \E t \in testTimers : ApiTimerFires(t)
    \/ \E t \in testTimers : \E rFail \in Grid : \E rDelay \in Grid :
          BackoffTimerFires(t, rFail, rDelay)

SpecRetry == InitSuite /\ [][NextRetry]_vars /\ WF_vars(NextRetry)

\* The cache expiration test.
NextCache ==
    \/ \E r \in ApiDraws : CacheStart(r)
    \/ \E t \in testTimers : \E r \in ApiDraws : CacheApiTimerFires(t, r)
    \/ \E t \in testTimers : \E r \in ApiDraws : CacheWaitTimerFires(t, r)

SpecCache == InitSuite /\ [][NextCache]_vars

\* The state-pollution suite.
NextMemory ==
    \/ \E r \in PollutionDraws : \E dt \in 0..MaxTick : BeforeEach(r, dt)
    \/ CounterTest
    \/ CacheTest
    \/ OtherTest

SpecMemory == InitSuite /\ [][NextMemory]_vars

\* The 'multiple async operations' test, then the 'debounced events' test.
NextTiming ==
    \/ \E v \in Variants : \E r1 \in Grid : \E r2 \in Grid : \E r3 \in Grid :
          OpsStart(v, r1, r2, r3)
    \/ \E t \in testTimers : OpTimerFires(t)
    \/ \E t \in testTimers : OpsWaitTimerFires(t)
    \/ \E dt \in 0..MaxTick : DebounceStart(dt)
    \/ \E t \in testTimers : TriggerTimerFires(t)
    \/ \E t \in testTimers : HandlerTimerFires(t)
    \/ \E t \in testTimers : DebounceCheckTimerFires(t)

SpecTiming == InitSuite /\ [][NextTiming]_vars

\* The WebSocket test.
NextWebSocket ==
    \/ \E r \in ConnectDraws : WsStart(r)
    \/ \E t \in testTimers : \E r \in EchoDraws : ConnectTimerFires(t, r)
    \/ \E t \in testTimers : EchoTimerFires(t)
    \/ \E t \in testTimers : EarlyCheckTimerFires(t)
    \/ \E t \in testTimers : MessageCheckTimerFires(t)

SpecWebSocket == InitSuite /\ [][NextWebSocket]_vars

\* The upload progress test.  The event loop runs every timer that is due.
NextUpload ==
    \/ \E rSize \in UploadDraws : \E rDelay \in UploadDraws : UploadStart(rSize, rDelay)
    \/ \E t \in testTimers : \E rSize \in UploadDraws : \E rDelay \in UploadDraws :
          ChunkTimerFires(t, rSize, rDelay)
    \/ \E t \in testTimers : ProgressCheckTimerFires(t)

SpecUpload == InitSuite /\ [][NextUpload]_vars /\ WF_vars(NextUpload)

\* The statistics counters.  An interval that is set keeps ticking.
InitStats == RepoGalleryMarkup /\ RepoFormMarkup /\ Loaded

NextStats ==
    \/ \E isIntersecting \in BOOLEAN : Intersect(isIntersecting)
    \/ Tick

SpecStats == InitStats /\ [][NextStats]_vars /\ WF_vars(Tick)

----------------------------------------------------------------------------
(* Properties *)

\* C5 (as amended): once the fixed-time check has run, its assertions held
\* exactly when the load timer fired before it, and that is exactly when the
\* load delay, cut to whole milliseconds as setTimeout cuts it, is at most
\* the check's threshold; for every load delay of at least threshold + 1 ms
\* the check ran on data that was not loaded yet.
C5_RaceOutcome ==
    checkResult # "pending" =>
        /\ (checkResult = "pass") <=> (Head(fired) = "load")
        /\ (Head(fired) = "load") <=> (TimerMs(delay) <= CheckDelay(variant))
        /\ delay >= (CheckDelay(variant) + 1) * SubMs =>
               Head(fired) = "check" /\ checkResult = "fail"

\* C5, witness: the check passed although the drawn delay is longer than the
\* threshold (by a fraction of a millisecond).
C5_Witness ==
    /\ checkResult = "pass"
    /\ delay > CheckDelay(variant) * SubMs

\* C5 (as stated): the check's assertions hold exactly when the load timer
\* fired before the check timer, and exactly when variable_duration <=
\* threshold; for every load delay greater than the threshold the check runs
\* on data that is not loaded yet.
C5_AsStated ==
    checkResult # "pending" =>
        /\ (checkResult = "pass") <=> (Head(fired) = "load")
        /\ (checkResult = "pass") <=> (delay <= CheckDelay(variant) * SubMs)
        /\ delay > CheckDelay(variant) * SubMs => Head(fired) = "check"

\* C7: on the repository's markup, once a filter button for category c has
\* been clicked and the hide delay has elapsed, every item of category c (every
\* item, for 'all') has display 'block' and class 'show' without 'hide', and
\* every other item has display 'none' and class 'hide' without 'show'.
C7_FilterShowsCategory ==
    (RepoGalleryMarkup /\ clicked # 0 /\ timers = <<>>) =>
        \A i \in Items :
            IF FilterValues[clicked] = "all" \/ ItemCategory[i] = FilterValues[clicked]
            THEN /\ galleryItems[i].display = "block"
                 /\ "show" \in galleryItems[i].classList
                 /\ "hide" \notin galleryItems[i].classList
            ELSE /\ galleryItems[i].display = "none"
                 /\ "hide" \in galleryItems[i].classList
                 /\ "show" \notin galleryItems[i].classList

\* C8: the hamburger and the nav menu both carry the class 'active' exactly
\* when the number of hamburger clicks since the last nav-link click (or since
\* page load) is odd.
C8_MenuActiveIffOddClicks ==
    /\ ("active" \in hamburger) <=> oddClicks
    /\ ("active" \in navMenu) <=> oddClicks

\* C9: every close trigger of a lightbox that is on the page (close button,
\* backdrop, Escape) removes it from the body and sets body overflow to 'auto';
\* an Escape keypress that arrives when every lightbox has already been removed
\* changes nothing and raises no error.
C9_CloseIsGuarded ==
    [][ /\ \A l \in DOMAIN lightboxes :
              ( /\ lightboxes[l].attached
                /\ CloseBtnClick(l) \/ BackdropClick(l) \/ KeyDown("Escape") )
              => (~lightboxes'[l].attached /\ bodyOverflow' = "auto")
        /\ ( /\ KeyDown("Escape")
             /\ \A l \in DOMAIN lightboxes : ~lightboxes[l].attached )
           => UNCHANGED lightboxVars
      ]_vars

\* C10: on the repository's markup (form.contact-form), a submit event has its
\* default prevented and puts the button into 'Sending...' and disabled; when
\* the 2000 ms timer fires there is one more alert, the fields are empty and
\* the button is enabled with the text 'Send Message'; while a submission is
\* pending the button stays disabled.
C10_SubmitFlow ==
    [][ RepoFormMarkup =>
          /\ Submit => (defaultPrevented' /\ submitBtn' = Sending)
          /\ \A k \in DOMAIN timers :
                SubmitTimerFires(k) =>
                   /\ alerts' = alerts + 1
                   /\ formFields' = [f \in FieldNames |-> ""]
                   /\ submitBtn' = [textContent |-> "Send Message", disabled |-> FALSE]
          /\ (submits' > alerts') => submitBtn'.disabled
      ]_vars

\* C11: the retry loop calls the API at most maxRetries times.  If attempt k
\* is the first whose shouldFail draw is false, the loop resolves with success
\* true and attempts = k = attemptCount and no timer is left; if all three
\* draws are true it rejects with the third attempt's error and attemptCount
\* is 3.  The loop always terminates.
C11_Outcome ==
    LET k == retry.attemptCount
    IN  /\ k <= maxRetries
        /\ Len(retry.pattern) = k
        /\ retry.outcome = "pending" => \A j \in 1..(k - 1) : retry.pattern[j]
        /\ retry.outcome = "resolved" =>
              /\ k \in 1..maxRetries
              /\ retry.pattern = [j \in 1..k |-> j < k]
              /\ retry.value = [success |-> TRUE, attempts |-> k]
              /\ testTimers = {}
        /\ retry.outcome = "rejected" =>
              /\ k = maxRetries
              /\ retry.pattern = [j \in 1..maxRetries |-> TRUE]
              /\ retry.value = [message |-> <<"Attempt", maxRetries, "failed">>]
              /\ testTimers = {}
        /\ (retry.pc = "done") <=> (retry.outcome # "pending")

C11_RetryLoop == []C11_Outcome /\ <>(retry.pc = "done")

\* C11, witness: the first two attempts failed and the third succeeded.
C11_Witness ==
    /\ retry.outcome = "resolved"
    /\ retry.attemptCount = maxRetries

C13_PristineAtBodyStart ==
    /\ (mem.pc = "body" /\ mem.test = 1) => mem.globalCounter = 0
    /\ (mem.pc = "between" /\ mem.test = 1) => mem.globalCounter = 1
    /\ (mem.pc = "body" /\ mem.test = 2) => mem.sharedCache = {}

\* C18: when the fixed-time check of the debounce test runs, the debounced
\* handler has fired exactly once: the check sees eventCount = 1 and
\* lastEventTime > 0.
C18_DebounceFiredOnce ==
    debounce.pc = "done" =>
        /\ debounce.seen.eventCount = 1
        /\ debounce.seen.lastEventTime > 0
        /\ debounce.passed

\* C19: when the test goes on after awaiting op1 and op2 (and, in the stricter
\* variant, 50 ms more), results holds 'op1', 'op2' and 'op3' and has length
\* 3, whatever the three delays.
C19_AllOpsDone ==
    ops.pc = "done" =>
        /\ Contains(ops.seen, "op1")
        /\ Contains(ops.seen, "op2")
        /\ Contains(ops.seen, "op3")
        /\ Len(ops.seen) = 3
        /\ ops.passed

C21_ProgressAtChecks ==
    LET seen == upload.seen
    IN  /\ Len(seen) >= 1 => seen[1].uploadProgress > 30
        /\ Len(seen) >= 2 => seen[2].uploadProgress > 70
        /\ Len(seen) >= 3 => seen[3].uploadComplete /\ seen[3].uploadProgress = 100

\* C30: uploaded never exceeds totalSize, uploadProgress never decreases and
\* stays within 0..100, uploadComplete is true only when uploadProgress is
\* 100, no chunk is scheduled after completion, at most 20 chunks are
\* uploaded, and the upload eventually completes.
C30_UploadState ==
    /\ upload.uploaded <= totalSize * UploadGrid
    /\ upload.uploadProgress \in 0..100
    /\ upload.uploadProgress >= upload.previous
    /\ upload.uploadComplete => upload.uploadProgress = 100
    /\ upload.uploadComplete => \A t \in testTimers : t.cb # "chunk"
    /\ upload.chunks <= 20
    /\ (upload.pc # "start" /\ ~upload.uploadComplete) =>
          Cardinality({t \in testTimers : t.cb = "chunk"}) = 1

C30_UploadInvariants == []C30_UploadState /\ <>(upload.uploadComplete)

\* C30, witness: the upload completed with its twentieth chunk.
C30_Witness ==
    /\ upload.uploadComplete
    /\ upload.chunks = 20

\* C22: a click on a gallery item appends to the body exactly one new element,
\* which carries the class 'lightbox' and holds a close control, an image with
\* the item's src and alt and a caption equal to the alt, and sets the body's
\* overflow to 'hidden'.
C22_ClickCreatesLightbox ==
    [][Len(lightboxes') > Len(lightboxes) =>
          /\ Len(lightboxes') = Len(lightboxes) + 1
          /\ LET new == lightboxes'[Len(lightboxes')]
             IN  /\ "lightbox" \in new.classList
                 /\ new.close = "lightbox-close"
                 /\ \E i \in DOMAIN ImgSrc : new.src = ImgSrc[i] /\ new.alt = ImgAlt[i]
                 /\ new.caption = new.alt
                 /\ new.attached
          /\ bodyOverflow' = "hidden"]_vars

\* C25: whenever no hide timer is pending, each gallery item's display agrees
\* with its class: 'show' implies 'block' and 'hide' implies 'none'; a hide
\* timer of an earlier click does not hide an item a later click has shown.
C25_DisplayAgreesWithClass ==
    (\A k \in DOMAIN timers : timers[k].cb # "hide") =>
        \A i \in Items :
            /\ "show" \in galleryItems[i].classList => galleryItems[i].display = "block"
            /\ "hide" \in galleryItems[i].classList => galleryItems[i].display = "none"

\* C26: in every reachable state the body's overflow is 'hidden' if and only
\* if at least one lightbox element is attached to the body.
C26_OverflowIffLightbox ==
    (bodyOverflow = "hidden") <=> (\E l \in DOMAIN lightboxes : lightboxes[l].attached)

\* C27: on a page whose form the script found, once every submission timer has
\* fired the submit button is enabled and shows its text of before the
\* submissions, and every submit has produced exactly one alert and reset.
C27_ButtonRestored ==
    (contactForm # Null /\ \A k \in DOMAIN timers : timers[k].cb # "submitted") =>
        /\ submitBtn = [textContent |-> "Send Message", disabled |-> FALSE]
        /\ alerts = submits

\* C29: exactly one filter button carries the class 'active': the most
\* recently clicked one, and before any click the 'all' button.
C29_OneActiveButton ==
    LET current == IF clicked = 0 THEN 1 ELSE clicked
    IN  /\ FilterValues[1] = "all"
        /\ \A b \in Buttons : ("active" \in filterButtons[b]) <=> (b = current)
        /\ Cardinality({b \in Buttons : "active" \in filterButtons[b]}) = 1

\* C29, witness: the 'landscape' button is active after a click on it.
C29_Witness ==
    /\ clicked = 4
    /\ "active" \in filterButtons[4]
    /\ "active" \notin filterButtons[1]

\* C28: countUp terminates for every target parsed from a statistics number's
\* text: the interval is eventually cleared; while it runs the number shown
\* never decreases and never exceeds the target; the last value written is
\* the target; and the counter of an element is started at most once.
C28_Shown ==
    /\ stats.started <= 1
    /\ (stats.written /\ ~stats.target.nan) =>
          /\ ~stats.shown.nan
          /\ stats.shown.value >= stats.previous.value
          /\ stats.shown.value <= stats.target.value
    /\ (stats.started > 0 /\ ~stats.timer) => stats.shown = stats.target

C28_CountUpTerminates ==
    []C28_Shown /\ []((stats.started > 0) => <>(~stats.timer))

====
